---- MODULE Spec2Model ----
(***************************************************************************)
(* The Blam datum array (src/src/Blam/BlamData.hpp): a fixed-capacity,     *)
(* salt-checked slot allocator handing out 32-bit datum indices, and the   *)
(* forward iterator over its live slots.                                   *)
(*                                                                         *)
(* BlamData.hpp declares the header of the array, the datum index, the     *)
(* datum base and the iterator; their definitions are translated from it.  *)
(* The bodies of DataArrayBase::Get and DataIteratorBase::Next and the     *)
(* allocation and release routines are not in the header: they are         *)
(* modelled from the design text (spec.md 4.2, 4.3) over the fields the    *)
(* header declares.                                                        *)
(***************************************************************************)
EXTENDS Integers, Naturals, Sequences, FiniteSets, TLC

(***************************************************************************)
(* Bounds of the exploration.                                              *)
(***************************************************************************)
\* largest MaxCount a store is constructed with
MaxCapacity == 3
\* successful Acquire calls explored in a bounded run
MaxAcquires == 4
\* successful Acquire calls explored in the wrap-around run: more than one
\* full cycle of the 16-bit salt counter
WrapAcquires == 65540
\* released handles the observer remembers
MaxStale == 2

(***************************************************************************)
(* 32-bit and 16-bit unsigned arithmetic.  A uint32_t is held as two       *)
(* 16-bit limbs <<hi, lo>> with value hi * 2^16 + lo.                      *)
(***************************************************************************)
\* mutant of TSaltBits: TSalt declared uint8_t
TSaltBitsNarrow == 16 \div 2

\* typedef uint16_t TSalt: the width of a salt in bits
TSaltBits == 16

\* typedef uint16_t TIndex: the width of an index in bits
TIndexBits == 16

RECURSIVE Pow2(_)
Pow2(n) == IF n = 0 THEN 1 ELSE 2 * Pow2(n - 1)

\* the largest value of a TSalt
TSaltMax == Pow2(TSaltBits) - 1

\* the largest value of a TIndex
TIndexMax == Pow2(TIndexBits) - 1

\* bitwise or of two n-bit values (x | 0 = x)
RECURSIVE BitOr(_, _, _)
BitOr(a, b, n) ==
    IF a = 0 THEN b
    ELSE IF b = 0 THEN a
    ELSE IF n = 0 THEN 0
    ELSE (IF a % 2 = 1 \/ b % 2 = 1 THEN 1 ELSE 0) + 2 * BitOr(a \div 2, b \div 2, n - 1)

\* bitwise and of two n-bit values (x & 0 = 0)
RECURSIVE BitAnd(_, _, _)
BitAnd(a, b, n) ==
    IF a = 0 \/ b = 0 THEN 0
    ELSE IF a = b THEN a
    ELSE IF n = 0 THEN 0
    ELSE (IF a % 2 = 1 /\ b % 2 = 1 THEN 1 ELSE 0) + 2 * BitAnd(a \div 2, b \div 2, n - 1)

\* an unsigned 16-bit operand promoted to 32 bits
U32(x) == <<0, x % 65536>>

\* v << 16 on 32 bits: the low limb moves up, the old high limb is lost
Shl16(v) == <<v[2], 0>>

\* v >> 16 on 32 bits
Shr16(v) == <<0, v[1]>>

Or32(v, w) == <<BitOr(v[1], w[1], 16), BitOr(v[2], w[2], 16)>>

And32(v, w) == <<BitAnd(v[1], w[1], 16), BitAnd(v[2], w[2], 16)>>

\* conversion of a 32-bit value to uint16_t: the low limb
Trunc16(v) == v[2]

(***************************************************************************)
(* DatumIndex                                                              *)
(***************************************************************************)
\* mutant of Null: the null datum index built as Handle(0)
NullZero == <<0, 0>>

\* mutant of Null: only the salt half set, Handle(0xFFFF0000)
NullSaltOnly == <<65535, 0>>

\* DatumIndex() : Handle(0xFFFFFFFF), the value of DatumIndex::Null
Null == <<65535, 65535>>

\* DatumIndex(TSalt salt, TIndex index): Handle = (salt << 16) | index
DatumIndexOf(s, i) == Or32(Shl16(U32(s)), U32(i))

\* mutant of Salt: the shift is one bit too long, Handle >> 17
SaltShift17(h) == Trunc16(Shr16(h)) \div 2

\* TSalt Salt() const { return Handle >> 16; }
Salt(h) == Trunc16(Shr16(h))

\* TIndex Index() const { return Handle & 0xFFFF; }
Index(h) == Trunc16(And32(h, <<0, 65535>>))

\* bool operator==(const DatumIndex other) const
DatumEq(a, b) == a = b

\* mutant of DatumBool: the comparison inverted, *this == Null
DatumBoolInverted(h) == DatumEq(h, Null)

\* operator bool() const { return *this != Null; }
DatumBool(h) == ~DatumEq(h, Null)

(***************************************************************************)
(* DatumBase                                                               *)
(***************************************************************************)
\* mutant of IsNull: the test inverted, salt != 0
IsNullInverted(s) == s # 0

\* mutant of IsNull: the empty salt is never recognised
IsNullNever(s) == FALSE

\* bool IsNull() const { return salt == 0; }
IsNull(s) == s = 0

(***************************************************************************)
(* DataArrayBase: the fields of the header the allocator works on, and the *)
(* salt stored at the head of every datum of Data.                         *)
(***************************************************************************)
VARIABLES
    MaxCount,          \* int MaxCount: the total number of data slots
    NextIndex,         \* int NextIndex: index to start searching at
    FirstUnallocated,  \* int FirstUnallocated: data from here on is unallocated
    ActualCount,       \* int ActualCount: number of indices actually used
    NextSalt,          \* TSalt NextSalt: the salt counter
    ActiveIndices,     \* uint32_t *ActiveIndices: 1 bit per index, 1 = used
    Data,              \* void *Data: Data[i] is the DatumBase salt of datum i
    iters,             \* the DataIteratorBase objects alive, or NoIter
    last,              \* the last call made and what it returned
    held,              \* observer: handles acquired and not yet passed to Release,
                       \* each with the number of the Acquire and the slot it took
    stale,             \* observer: the first MaxStale handles a Release has freed,
                       \* each with the number of Acquire calls made before the Release
    acqCount,          \* observer: successful Acquire calls so far
    acqLimit           \* successful Acquire calls this run explores

arrayVars == <<MaxCount, NextIndex, FirstUnallocated, ActualCount, NextSalt,
               ActiveIndices, Data>>

vars == <<MaxCount, NextIndex, FirstUnallocated, ActualCount, NextSalt,
          ActiveIndices, Data, iters, last, held, stale, acqCount, acqLimit>>

\* the indices of the array
Slots == 0 .. (MaxCount - 1)

\* what Get and Next return for a null pointer
NotFound == -1

\* mutant of GetAddress: the datum is addressed by the salt half
GetAddressBySalt(h) == Salt(h)

\* DataArrayBase::GetAddress, as the index of the datum it points at
GetAddress(h) == Index(h)

Min(S) == CHOOSE x \in S : \A y \in S : x <= y

\* mutant of IsUsed: the bit read the other way round
IsUsedInverted(i) == ActiveIndices[i] = 0

\* the bit of index i in ActiveIndices: 1 = used and 0 = unused
IsUsed(i) == ActiveIndices[i] = 1

\* the free indices from index from on, by the bit array
FreeFrom(from) == {i \in Slots : i >= from /\ ~IsUsed(i)}

\* Acquire's search: the lowest free index at or after NextIndex, and a search
\* from the start when that one runs off the end of the array
FindFree ==
    IF FreeFrom(NextIndex) # {} THEN Min(FreeFrom(NextIndex))
    ELSE IF FreeFrom(0) # {} THEN Min(FreeFrom(0))
    ELSE NotFound

\* mutant of BumpSalt: a plain 16-bit increment, 0xFFFF + 1 = 0
BumpSaltPlain(s) == (s + 1) % Pow2(TSaltBits)

\* the salt counter after one increment: wraps at the width of TSalt and
\* skips 0, the salt of an empty datum
BumpSalt(s) == IF s >= TSaltMax THEN 1 ELSE s + 1

\* DataArrayBase::Get: the datum of a datum index, or null when the index is
\* out of range, the salts differ or the datum is empty
Get(h) ==
    IF Index(h) < MaxCount /\ Data[Index(h)] = Salt(h) /\ ~IsNull(Data[Index(h)])
    THEN GetAddress(h)
    ELSE NotFound

\* the data Get reads to decide about h
GetReads(h) == IF Index(h) < MaxCount THEN {Index(h)} ELSE {}

(***************************************************************************)
(* DataIteratorBase, DataIterator                                          *)
(***************************************************************************)
\* no iterator object
NoIter == [Array |-> "none", CurrentIndex |-> -1, CurrentDatumIndex |-> Null,
           yielded |-> <<>>, ret |-> -2]

\* mutant of IterCtor: CurrentIndex(0) in place of CurrentIndex(-1)
IterCtorAtZero == [Array |-> "array", CurrentIndex |-> 0, CurrentDatumIndex |-> Null,
                   yielded |-> <<>>, ret |-> -2]

\* DataIteratorBase(data) : Array(data), CurrentDatumIndex(DatumIndex::Null),
\* CurrentIndex(-1); yielded and ret are the observer's: the indices Next has
\* returned so far, and what the last call of Next returned (-2 before any)
IterCtor == [Array |-> "array", CurrentIndex |-> -1, CurrentDatumIndex |-> Null,
             yielded |-> <<>>, ret |-> -2]

\* the used indices after index from, by the bit array
UsedAfter(from) == {i \in Slots : i > from /\ IsUsed(i)}

\* what DataIteratorBase::Next returns on iterator it
NextResult(it) ==
    IF UsedAfter(it.CurrentIndex) = {} THEN NotFound ELSE Min(UsedAfter(it.CurrentIndex))

\* the iterator after DataIteratorBase::Next: on the next used datum, or on the
\* end of the array with the null datum index
NextOf(it) ==
    IF NextResult(it) = NotFound
    THEN [it EXCEPT !.CurrentIndex = MaxCount, !.CurrentDatumIndex = Null,
                    !.ret = NotFound]
    ELSE [it EXCEPT !.CurrentIndex = NextResult(it),
                    !.CurrentDatumIndex = DatumIndexOf(Data[NextResult(it)], NextResult(it)),
                    !.yielded = Append(@, NextResult(it)),
                    !.ret = NextResult(it)]

\* DataArray::begin(): DataIterator result(this); result.Next(); return result;
BeginOf == NextOf(IterCtor)

\* mutant of EndOf: result.CurrentIndex = MaxCount - 1
EndOfLast == [IterCtor EXCEPT !.CurrentIndex = MaxCount - 1]

\* DataArray::end(): DataIterator result(this); result.CurrentIndex = MaxCount;
EndOf == [IterCtor EXCEPT !.CurrentIndex = MaxCount]

\* DataIterator::operator==
IterEq(a, b) ==
    /\ a.Array = b.Array
    /\ a.CurrentIndex = b.CurrentIndex
    /\ DatumEq(a.CurrentDatumIndex, b.CurrentDatumIndex)

\* DataIterator::operator->: the datum the iterator's datum index addresses
IterDeref(it) == GetAddress(it.CurrentDatumIndex)

(***************************************************************************)
(* Construction: an empty array of 1 .. MaxCapacity slots.                 *)
(***************************************************************************)
InitArray(cap, limit) ==
    /\ MaxCount = cap
    /\ NextIndex = 0
    /\ FirstUnallocated = 0
    /\ ActualCount = 0
    /\ NextSalt = 0
    /\ ActiveIndices = [i \in 0 .. (cap - 1) |-> 0]
    /\ Data = [i \in 0 .. (cap - 1) |-> 0]
    /\ iters = [k \in 1 .. 2 |-> NoIter]
    /\ last = [op |-> "new", h |-> Null, r |-> 0]
    /\ held = {}
    /\ stale = {}
    /\ acqCount = 0
    /\ acqLimit = limit

Init == \E cap \in 1 .. MaxCapacity : InitArray(cap, MaxAcquires)

\* a store of one slot, explored through a whole cycle of the salt counter
InitWrap == InitArray(1, WrapAcquires)

\* lookups, traversals and calls with stale, null and forged datum indices are
\* explored among the first MaxAcquires allocations of a run
Probing == acqCount <= MaxAcquires

\* no traversal is in progress: callers finish iterating before they mutate
NoTraversal == \A k \in DOMAIN iters : iters[k] = NoIter

(***************************************************************************)
(* Acquire                                                                 *)
(***************************************************************************)
\* mutant of RaiseWatermark: Acquire leaves FirstUnallocated alone
KeepWatermark(i) == FirstUnallocated

\* FirstUnallocated after index i was taken: above every index in use
RaiseWatermark(i) == IF FirstUnallocated > i THEN FirstUnallocated ELSE i + 1

Acquire ==
    /\ NoTraversal
    /\ LET i == FindFree
           s == BumpSalt(NextSalt)
       IN IF i = NotFound
          THEN /\ last' = [op |-> "Acquire", h |-> Null, r |-> 0]
               /\ UNCHANGED <<arrayVars, iters, held, stale, acqCount, acqLimit>>
          ELSE /\ acqCount < acqLimit
               /\ ActiveIndices' = [ActiveIndices EXCEPT ![i] = 1]
               /\ ActualCount' = ActualCount + 1
               /\ NextSalt' = s
               /\ Data' = [Data EXCEPT ![i] = s]
               /\ NextIndex' = i + 1
               /\ FirstUnallocated' = RaiseWatermark(i)
               /\ last' = [op |-> "Acquire", h |-> DatumIndexOf(s, i), r |-> 1]
               /\ acqCount' = acqCount + 1
               /\ held' = held \cup {[h |-> DatumIndexOf(s, i), at |-> acqCount + 1, slot |-> i]}
               /\ UNCHANGED <<MaxCount, iters, stale, acqLimit>>

(***************************************************************************)
(* Release                                                                 *)
(***************************************************************************)
\* the handles the observer holds under a datum index
HeldAs(h) == {e \in held : e.h = h}

\* mutant of LowerCursor: Release leaves NextIndex alone
KeepCursor(i) == NextIndex

\* NextIndex after index i was released: the lower of the two
LowerCursor(i) == IF i < NextIndex THEN i ELSE NextIndex

Release(h) ==
    /\ NoTraversal
    /\ held' = held \ HeldAs(h)
    /\ IF ~DatumBool(h) \/ Get(h) = NotFound
       THEN /\ last' = [op |-> "Release", h |-> h, r |-> 0]
            /\ UNCHANGED <<arrayVars, iters, stale, acqCount, acqLimit>>
       ELSE /\ Data' = [Data EXCEPT ![Index(h)] = 0]
            /\ ActiveIndices' = [ActiveIndices EXCEPT ![Index(h)] = 0]
            /\ ActualCount' = ActualCount - 1
            /\ NextIndex' = LowerCursor(Index(h))
            /\ last' = [op |-> "Release", h |-> h, r |-> 1]
            /\ stale' = IF Cardinality(stale) < MaxStale
                        THEN stale \cup {[h |-> e.h, at |-> e.at, slot |-> e.slot,
                                          rel |-> acqCount] : e \in HeldAs(h)}
                        ELSE stale
            /\ UNCHANGED <<MaxCount, FirstUnallocated, NextSalt, iters, acqCount, acqLimit>>

(***************************************************************************)
(* TryGet                                                                  *)
(***************************************************************************)
\* a lookup changes nothing: it is explored between traversals, where every
\* state of the array occurs
TryGet(h) ==
    /\ Probing
    /\ NoTraversal
    /\ last' = [op |-> "Get", h |-> h, r |-> Get(h)]
    /\ UNCHANGED <<arrayVars, iters, held, stale, acqCount, acqLimit>>

(***************************************************************************)
(* Iteration                                                               *)
(***************************************************************************)
\* the last call was one on an iterator; what Next returned is in the iterator
IterCall == [op |-> "Iter", h |-> Null, r |-> 0]

\* DataIteratorBase it(array)
NewIterator(k) ==
    /\ Probing
    /\ iters[k] = NoIter
    /\ iters' = [iters EXCEPT ![k] = IterCtor]
    /\ last' = IterCall
    /\ UNCHANGED <<arrayVars, held, stale, acqCount, acqLimit>>

\* auto it = array.begin()
Begin(k) ==
    /\ Probing
    /\ iters[k] = NoIter
    /\ iters' = [iters EXCEPT ![k] = BeginOf]
    /\ last' = IterCall
    /\ UNCHANGED <<arrayVars, held, stale, acqCount, acqLimit>>

\* mutant of IterNext: the position is kept once for the array, so that
\* advancing one iterator advances every iterator over it
IterNextAll(k) ==
    /\ iters[k] # NoIter
    /\ iters' = [j \in DOMAIN iters |-> IF iters[j] = NoIter THEN NoIter ELSE NextOf(iters[j])]
    /\ last' = IterCall
    /\ UNCHANGED <<arrayVars, held, stale, acqCount, acqLimit>>

\* it.Next(), ++it
IterNext(k) ==
    /\ iters[k] # NoIter
    /\ iters' = [iters EXCEPT ![k] = NextOf(iters[k])]
    /\ last' = IterCall
    /\ UNCHANGED <<arrayVars, held, stale, acqCount, acqLimit>>

\* the iterator goes out of scope
Drop(k) ==
    /\ iters[k] # NoIter
    /\ iters' = [iters EXCEPT ![k] = NoIter]
    /\ last' = IterCall
    /\ UNCHANGED <<arrayVars, held, stale, acqCount, acqLimit>>

(***************************************************************************)
(* The datum indices callers pass: the ones they hold, the ones they held, *)
(* the null index and forged ones.                                         *)
(***************************************************************************)
ForgedSalts == {0, NextSalt, TSaltMax}

ForgedIndices == {0, MaxCount - 1, MaxCount, TIndexMax}

HeldHandles == {e.h : e \in held}

Handles ==
    HeldHandles \cup {e.h : e \in stale} \cup {Null}
        \cup {DatumIndexOf(s, i) : s \in ForgedSalts, i \in ForgedIndices}

ReleaseArgs == IF Probing THEN Handles ELSE HeldHandles

Next ==
    \/ Acquire
    \/ \E h \in ReleaseArgs : Release(h)
    \/ \E h \in Handles : TryGet(h)
    \/ \E k \in DOMAIN iters : NewIterator(k)
    \/ \E k \in DOMAIN iters : Begin(k)
    \/ \E k \in DOMAIN iters : IterNext(k)
    \/ \E k \in DOMAIN iters : Drop(k)

Spec == Init /\ [][Next]_vars

SpecWrap == (Init \/ InitWrap) /\ [][Next]_vars

\* the store of the worked scenario: 4 slots
InitScenario == InitArray(2 + 2, MaxAcquires)

SpecScenario == InitScenario /\ [][Next]_vars

(***************************************************************************)
(* DatumIndex on its own: two datum indices are built from salts and       *)
(* indices of the whole 16-bit range and compared.  The call records its   *)
(* arguments next to what it built.                                        *)
(***************************************************************************)
PackSamples == {0, 1, 255, 256, 32767, 32768, 65534, 65535}

Compare(s, i, t, j) ==
    /\ last.op = "new"
    /\ last' = [op |-> "DatumIndex", h |-> DatumIndexOf(s, i),
                r |-> IF DatumEq(DatumIndexOf(s, i), DatumIndexOf(t, j)) THEN 1 ELSE 0,
                salt |-> s, index |-> i,
                h2 |-> DatumIndexOf(t, j), salt2 |-> t, index2 |-> j]
    /\ UNCHANGED <<arrayVars, iters, held, stale, acqCount, acqLimit>>

NextPack == \E s, i, t, j \in PackSamples : Compare(s, i, t, j)

SpecPack == InitArray(1, MaxAcquires) /\ [][NextPack]_vars

(***************************************************************************)
(* The observer's reading of a datum index: the upper and the lower 16     *)
(* bits of its 32-bit value.                                               *)
(***************************************************************************)
GenerationOf(h) == h[1]

SlotIndexOf(h) == h[2]

\* the number of salts the 16-bit counter of TSalt goes through before it
\* repeats: 1 .. 0xFFFF
SaltPeriod == 65535

\* the last call was an Acquire that returned a datum index
Acquired == last.op = "Acquire" /\ last.r = 1

\* successful Acquire calls made after the one that returned e.h
AcquiresSince(e) == acqCount - e.at

(***************************************************************************)
(* C1: when a released handle's slot is taken again by a later Acquire,   *)
(* the new handle's generation differs from the released one's and the     *)
(* released handle is not found by TryGet after that Acquire - as long as  *)
(* fewer than 65535 successful Acquire calls followed the one that         *)
(* returned the released handle.                                           *)
(***************************************************************************)
C1_ReuseBumpsGeneration ==
    Acquired =>
        \A e \in stale :
            (SlotIndexOf(e.h) = SlotIndexOf(last.h) /\ AcquiresSince(e) < SaltPeriod)
                => (GenerationOf(last.h) # GenerationOf(e.h) /\ Get(e.h) = NotFound)

\* C1 as claimed, for every later Acquire that takes the slot again
C1_AsClaimed ==
    Acquired =>
        \A e \in stale :
            SlotIndexOf(e.h) = SlotIndexOf(last.h)
                => (GenerationOf(last.h) # GenerationOf(e.h) /\ Get(e.h) = NotFound)

\* a released handle's slot has just been taken again, other Acquire calls
\* lying between
C1_Witness ==
    /\ Acquired
    /\ \E e \in stale :
          /\ SlotIndexOf(e.h) = SlotIndexOf(last.h)
          /\ AcquiresSince(e) >= 2
          /\ GenerationOf(last.h) = GenerationOf(e.h) + AcquiresSince(e)

(***************************************************************************)
(* C2: a handle that a Release has freed is not found by TryGet in any     *)
(* later state in which fewer than 65535 successful Acquire calls have     *)
(* followed the one that returned it; a handle that TryGet finds again     *)
(* after that is one a later Acquire has returned anew.                    *)
(***************************************************************************)
C2_StaleNotFound ==
    \A e \in stale :
        /\ AcquiresSince(e) < SaltPeriod => Get(e.h) = NotFound
        /\ Get(e.h) # NotFound => e.h \in HeldHandles

\* C2 as claimed: not found ever after, the counter's wrap included
C2_AsClaimed == \A e \in stale : Get(e.h) = NotFound

\* TryGet has just rejected a released handle whose slot is in use again
C2_Witness ==
    \E e \in stale :
        /\ last = [op |-> "Get", h |-> e.h, r |-> NotFound]
        /\ IsUsed(SlotIndexOf(e.h))
        /\ Data[SlotIndexOf(e.h)] # GenerationOf(e.h)

(***************************************************************************)
(* C3: a handle returned by Acquire and not yet passed to Release is found *)
(* by TryGet, whatever was acquired or released meanwhile, and TryGet      *)
(* gives the slot Acquire took for it, which is the handle's slot index.   *)
(***************************************************************************)
C3_HeldHandleFound ==
    \A e \in held :
        /\ Get(e.h) # NotFound
        /\ Get(e.h) = e.slot
        /\ e.slot = SlotIndexOf(e.h)

\* TryGet has just found a handle that was acquired before two others, one of
\* them released since
C3_Witness ==
    \E e \in held :
        /\ last = [op |-> "Get", h |-> e.h, r |-> e.slot]
        /\ AcquiresSince(e) >= 2
        /\ \E x \in stale : x.at > e.at

(***************************************************************************)
(* C4: ActualCount is the number of successful Acquire calls whose handle  *)
(* has not been passed to Release, and lies in 0 .. MaxCount.              *)
(***************************************************************************)
C4_ActiveCount ==
    /\ ActualCount = Cardinality(held)
    /\ 0 <= ActualCount
    /\ ActualCount <= MaxCount

\* the store is full again after a Release
C4_Witness ==
    /\ ActualCount = MaxCount
    /\ MaxCount >= 2
    /\ stale # {}
    /\ last.op = "Acquire"

(***************************************************************************)
(* C5: an Acquire on a full store (ActualCount = MaxCount) returns the     *)
(* null handle, all 32 bits set, and leaves the bit array, every slot's    *)
(* salt, ActualCount, NextIndex, FirstUnallocated and NextSalt as they     *)
(* were.                                                                   *)
(***************************************************************************)
AllOnes == <<65535, 65535>>

C5_FullAcquireFails ==
    [][(Acquire /\ ActualCount = MaxCount)
          => (/\ last'.h = AllOnes
              /\ last'.r = 0
              /\ UNCHANGED <<ActiveIndices, Data, ActualCount, NextIndex,
                             FirstUnallocated, NextSalt, MaxCount>>)]_vars

\* an Acquire has just failed on a store that filled up again after a Release
C5_Witness ==
    /\ last = [op |-> "Acquire", h |-> AllOnes, r |-> 0]
    /\ ActualCount = MaxCount
    /\ MaxCount >= 2
    /\ stale # {}

(***************************************************************************)
(* C6: Release(h) changes nothing of the bit array, the slots' salts,      *)
(* ActualCount and NextIndex when h is the null handle, when its slot      *)
(* index is not below MaxCount, or when its generation differs from the    *)
(* salt stored in its slot - a second Release of a released handle         *)
(* included.                                                               *)
(***************************************************************************)
BadHandle(h) ==
    \/ h = AllOnes
    \/ SlotIndexOf(h) >= MaxCount
    \/ GenerationOf(h) # Data[SlotIndexOf(h)]

\* every step that is a call Release(h), h being the argument the call records
C6_BadReleaseNoOp ==
    [][(last'.op = "Release" /\ BadHandle(last'.h) /\ Release(last'.h))
          => UNCHANGED <<ActiveIndices, Data, ActualCount, NextIndex>>]_vars

\* a released handle has just been released a second time while its slot is
\* in use under another generation
C6_Witness ==
    \E e \in stale :
        /\ last = [op |-> "Release", h |-> e.h, r |-> 0]
        /\ IsUsed(SlotIndexOf(e.h))
        /\ Data[SlotIndexOf(e.h)] # GenerationOf(e.h)
        /\ ActualCount = Cardinality(held)

(***************************************************************************)
(* C7: for every handle value, TryGet gives the slot at the handle's slot  *)
(* index exactly when that index is below MaxCount, the salt stored there  *)
(* equals the handle's generation and that generation is not 0; otherwise  *)
(* it gives not-found, and it reads no slot at or beyond MaxCount.         *)
(***************************************************************************)
ValidHandle(h) ==
    /\ SlotIndexOf(h) < MaxCount
    /\ Data[SlotIndexOf(h)] = GenerationOf(h)
    /\ GenerationOf(h) # 0

C7_TryGetExact ==
    \A h \in Handles :
        /\ ValidHandle(h) => Get(h) = SlotIndexOf(h)
        /\ ~ValidHandle(h) => Get(h) = NotFound
        /\ \A i \in GetReads(h) : i \in Slots

\* TryGet has just rejected a forged handle of generation 0 on a free slot,
\* while another handle is valid
C7_Witness ==
    /\ last.op = "Get"
    /\ last.r = NotFound
    /\ GenerationOf(last.h) = 0
    /\ SlotIndexOf(last.h) < MaxCount
    /\ Data[SlotIndexOf(last.h)] = 0
    /\ \E h \in Handles : ValidHandle(h)

(***************************************************************************)
(* C8: for every slot, its bit in the bit array is set exactly when its    *)
(* stored salt is not 0, which is exactly when a handle acquired and not   *)
(* yet released holds it.                                                  *)
(***************************************************************************)
C8_BitmapSaltLive ==
    \A i \in Slots :
        /\ (ActiveIndices[i] = 1) <=> (Data[i] # 0)
        /\ (Data[i] # 0) <=> (\E e \in held : e.slot = i)
        /\ ActiveIndices[i] \in {0, 1}

\* a free slot lies between two live ones
C8_Witness ==
    \E i \in Slots :
        /\ ActiveIndices[i] = 0
        /\ \E e \in stale : e.slot = i
        /\ \E a, b \in held : a.slot < i /\ i < b.slot

(***************************************************************************)
(* C9: an iterator advanced from construction to exhaustion, no Acquire or *)
(* Release in between, has yielded every live slot exactly once, in        *)
(* strictly increasing slot order, and no free slot; with N handles        *)
(* acquired and none released it has yielded N slots.                      *)
(***************************************************************************)
LiveSlots == {e.slot : e \in held}

Increasing(q) == \A a, b \in 1 .. Len(q) : a < b => q[a] < q[b]

Range(q) == {q[a] : a \in 1 .. Len(q)}

C9_IterationYieldsLive ==
    \A k \in DOMAIN iters :
        /\ Increasing(iters[k].yielded)
        /\ Range(iters[k].yielded) \subseteq LiveSlots
        /\ iters[k].ret = NotFound =>
              /\ Range(iters[k].yielded) = LiveSlots
              /\ Len(iters[k].yielded) = Cardinality(held)
              /\ (stale = {} => Len(iters[k].yielded) = acqCount)

\* an exhausted iterator has yielded two live slots around a free one
C9_Witness ==
    \E k \in DOMAIN iters :
        /\ iters[k].ret = NotFound
        /\ Len(iters[k].yielded) = 2
        /\ \E i \in Slots : ~IsUsed(i) /\ iters[k].yielded[1] < i /\ i < iters[k].yielded[2]

(***************************************************************************)
(* C10: in every state of the array, the iterator of begin() equals end()  *)
(* after ActualCount advances and not before: an exhausted iterator has    *)
(* CurrentIndex = MaxCount and the null datum index that end() carries,    *)
(* and on an empty store begin() equals end() at once.                     *)
(***************************************************************************)
RECURSIVE Advance(_, _)
Advance(it, n) == IF n = 0 THEN it ELSE Advance(NextOf(it), n - 1)

C10_BeginReachesEnd ==
    /\ IterEq(Advance(BeginOf, ActualCount), EndOf)
    /\ \A n \in 0 .. (ActualCount - 1) : ~IterEq(Advance(BeginOf, n), EndOf)
    /\ ActualCount = 0 => IterEq(BeginOf, EndOf)
    /\ \A k \in DOMAIN iters :
          /\ iters[k].ret = NotFound =>
                /\ iters[k].CurrentIndex = MaxCount
                /\ iters[k].CurrentDatumIndex = AllOnes
                /\ IterEq(iters[k], EndOf)
          /\ iters[k].ret >= 0 => ~IterEq(iters[k], EndOf)

\* an iterator has run to end() over a store whose last slot is live
C10_Witness ==
    \E k \in DOMAIN iters :
        /\ iters[k].ret = NotFound
        /\ IterEq(iters[k], EndOf)
        /\ IsUsed(MaxCount - 1)
        /\ Len(iters[k].yielded) >= 2

(***************************************************************************)
(* C11: on a fresh store of 4 slots, after Acquire, Acquire, Release(h0),  *)
(* Acquire the handles are h0 = (slot 0, generation 1), h1 = (slot 1,      *)
(* generation 2) and h2 = (slot 0, generation 3): the counter is the       *)
(* store's, one step per Acquire.  TryGet(h0) fails, TryGet(h2) succeeds   *)
(* and iteration yields the slots of h2 then h1, slot order 0, 1.          *)
(***************************************************************************)
\* the state after the trace: three Acquire calls, the first handle released
\* between the second and the third, nothing else released
AfterScenario ==
    /\ MaxCount = 4
    /\ acqCount = 3
    /\ {e.at : e \in held} = {2, 3}
    /\ {<<e.at, e.rel>> : e \in stale} = {<<1, 2>>}

\* the handle the n-th Acquire returned
Nth(n) == (CHOOSE e \in held \cup stale : e.at = n).h

ScenarioOutcome ==
    /\ Get(Nth(1)) = NotFound
    /\ Get(Nth(3)) = 0
    /\ Advance(BeginOf, 0).CurrentDatumIndex = Nth(3)
    /\ Advance(BeginOf, 1).CurrentDatumIndex = Nth(2)
    /\ Advance(BeginOf, 2).yielded = <<0, 1>>
    /\ Advance(BeginOf, 2).ret = NotFound

C11_Scenario ==
    AfterScenario =>
        /\ Nth(1) = <<1, 0>>
        /\ Nth(2) = <<2, 1>>
        /\ Nth(3) = <<3, 0>>
        /\ ScenarioOutcome

\* C11 as claimed: h1 of generation 1, h2 of generation 2
C11_AsClaimed ==
    AfterScenario =>
        /\ Nth(1) = <<1, 0>>
        /\ Nth(2) = <<1, 1>>
        /\ Nth(3) = <<2, 0>>
        /\ ScenarioOutcome

\* the trace has run and an iterator has gone through the store
C11_Witness ==
    /\ AfterScenario
    /\ \E k \in DOMAIN iters : iters[k].ret = NotFound /\ iters[k].yielded = <<0, 1>>

(***************************************************************************)
(* C12: Acquire returns the null handle only when no free slot exists.     *)
(* Every call of Acquire made while ActualCount < MaxCount succeeds: it     *)
(* returns a handle other than the null one, to a slot of the store whose   *)
(* bit was clear and whose salt was 0, and takes that slot.  On a store of  *)
(* one slot, the Acquire that follows a successful Release returns a        *)
(* generation other than the released handle's.                             *)
(***************************************************************************)
C12_AcquireWhenFree ==
    [][(ActualCount < MaxCount /\ last'.op = "Acquire" /\ Acquire)
          => (/\ last'.r = 1
              /\ last'.h # AllOnes
              /\ SlotIndexOf(last'.h) \in Slots
              /\ ActiveIndices[SlotIndexOf(last'.h)] = 0
              /\ Data[SlotIndexOf(last'.h)] = 0
              /\ ActiveIndices'[SlotIndexOf(last'.h)] = 1
              /\ ActualCount' = ActualCount + 1
              /\ (MaxCount = 1 /\ last.op = "Release" /\ last.r = 1)
                    => GenerationOf(last'.h) # GenerationOf(last.h))]_vars

\* on a store of one slot: the slot was taken and released, and the Acquire
\* just made took it again under another generation
C12_Witness ==
    /\ MaxCount = 1
    /\ Acquired
    /\ \E e \in stale, f \in held :
          /\ f.h = last.h
          /\ f.at = e.rel + 1
          /\ f.slot = e.slot
          /\ GenerationOf(f.h) # GenerationOf(e.h)

C14_PackUnpack ==
    last.op = "DatumIndex" =>
        /\ GenerationOf(last.h) = last.salt /\ SlotIndexOf(last.h) = last.index
        /\ Salt(last.h) = last.salt /\ Index(last.h) = last.index
        /\ Salt(last.h2) = last.salt2 /\ Index(last.h2) = last.index2
        /\ last.r = 1 <=> (last.salt = last.salt2 /\ last.index = last.index2)
        /\ last.r = 1 <=> last.h = last.h2

\* built with the top bit of the salt set, and compared with a handle that
\* differs from it in the salt alone
C14_Witness ==
    /\ last.op = "DatumIndex"
    /\ last.salt = 32768 /\ last.index = 65535
    /\ last.salt2 = 32767 /\ last.index2 = 65535
    /\ last.r = 0

(***************************************************************************)
(* C15: every handle returned by a successful Acquire has a nonzero        *)
(* generation, also where the 16-bit generation counter wraps around: the  *)
(* counter steps from 0xFFFF to 1 and otherwise by one, the handle and the *)
(* slot carry the counter's new value, and that value is never 0.          *)
(***************************************************************************)
C15_NonzeroGeneration ==
    [][(last'.op = "Acquire" /\ last'.r = 1 /\ Acquire)
          => (/\ GenerationOf(last'.h) # 0
              /\ GenerationOf(last'.h) = NextSalt'
              /\ Data'[SlotIndexOf(last'.h)] = NextSalt'
              /\ NextSalt' = IF NextSalt = 65535 THEN 1 ELSE NextSalt + 1
              /\ \A i \in Slots : IsUsed(i)' => Data'[i] # 0)]_vars

\* the Acquire that follows the one stamping 0xFFFF has stamped 1
C15_Witness ==
    /\ Acquired
    /\ acqCount = SaltPeriod + 1
    /\ GenerationOf(last.h) = 1
    /\ Data[SlotIndexOf(last.h)] = 1

(***************************************************************************)
(* C16: in every state reached by Acquire and Release calls, every slot    *)
(* with index at or above the first-unallocated watermark is free: its     *)
(* bitmap bit is clear and its generation is 0.  The watermark stays       *)
(* within the store.                                                       *)
(***************************************************************************)
C16_WatermarkAboveUsed ==
    /\ FirstUnallocated \in 0 .. MaxCount
    /\ \A i \in Slots :
          i >= FirstUnallocated => ActiveIndices[i] = 0 /\ Data[i] = 0

\* slots were taken and one below the watermark released again: the watermark
\* stands above a used slot, below the end of the store, over a free slot
C16_Witness ==
    /\ 0 < FirstUnallocated /\ FirstUnallocated < MaxCount
    /\ ActiveIndices[FirstUnallocated - 1] = 1
    /\ \E i \in Slots : i < FirstUnallocated /\ ActiveIndices[i] = 0
    /\ stale # {}

(***************************************************************************)
(* C17: a successful Release(h) sets the generation of slot h.Index() to   *)
(* 0, clears its bitmap bit, decrements the active-count by exactly 1,     *)
(* sets the resume cursor to the minimum of the old cursor and h.Index(),  *)
(* and leaves every other slot's generation and bitmap bit unchanged.      *)
(***************************************************************************)
C17_ReleaseEffect ==
    [][(last'.op = "Release" /\ last'.r = 1 /\ Release(last'.h))
          => (/\ SlotIndexOf(last'.h) \in Slots
              /\ ActiveIndices[SlotIndexOf(last'.h)] = 1
              /\ Data[SlotIndexOf(last'.h)] = GenerationOf(last'.h)
              /\ Data'[SlotIndexOf(last'.h)] = 0
              /\ ActiveIndices'[SlotIndexOf(last'.h)] = 0
              /\ ActualCount' = ActualCount - 1
              /\ NextIndex' = IF NextIndex < SlotIndexOf(last'.h)
                              THEN NextIndex ELSE SlotIndexOf(last'.h)
              /\ \A j \in Slots \ {SlotIndexOf(last'.h)} :
                    Data'[j] = Data[j] /\ ActiveIndices'[j] = ActiveIndices[j])]_vars

\* a slot below the cursor was just released: the cursor came down to it,
\* and a slot above it is still in use under its own generation
C17_Witness ==
    /\ last.op = "Release" /\ last.r = 1
    /\ NextIndex = SlotIndexOf(last.h)
    /\ Data[NextIndex] = 0 /\ ActiveIndices[NextIndex] = 0
    /\ \E e \in held : e.slot > NextIndex /\ Data[e.slot] = GenerationOf(e.h)
    /\ ActualCount = Cardinality(held)

(***************************************************************************)
(* C18: advancing an iterator changes only that iterator.  The allocator   *)
(* state (bitmap, generations, cursor, watermark, active-count, generation *)
(* counter) is unchanged, and a second iterator over the same allocator    *)
(* keeps its current index and current handle and, advanced to the end,    *)
(* still yields every live slot once, in increasing order.                 *)
(***************************************************************************)
YieldsAllLive(it) ==
    /\ Increasing(Advance(it, MaxCount + 1).yielded)
    /\ Range(Advance(it, MaxCount + 1).yielded) = {i \in Slots : ActiveIndices[i] = 1}
    /\ Advance(it, MaxCount + 1).CurrentIndex = MaxCount

C18_AdvanceIsLocal ==
    [][\A k \in DOMAIN iters :
          IterNext(k)
             => (/\ UNCHANGED <<MaxCount, NextIndex, FirstUnallocated, ActualCount,
                                NextSalt, ActiveIndices, Data>>
                 /\ \A j \in DOMAIN iters \ {k} :
                       /\ iters'[j].CurrentIndex = iters[j].CurrentIndex
                       /\ iters'[j].CurrentDatumIndex = iters[j].CurrentDatumIndex
                       /\ iters'[j] = iters[j]
                       /\ iters'[j] # NoIter => YieldsAllLive(iters'[j]))]_vars

\* two iterators over a store with two slots in use: one was advanced to the
\* end while the other stands on the first slot and still yields both
C18_Witness ==
    /\ ActualCount >= 2
    /\ \E k, j \in DOMAIN iters :
          /\ iters[k] # NoIter /\ iters[j] # NoIter
          /\ iters[k].ret = NotFound /\ Len(iters[k].yielded) = ActualCount
          /\ iters[j].ret >= 0 /\ Len(iters[j].yielded) = 1
          /\ Len(Advance(iters[j], MaxCount).yielded) = ActualCount

(***************************************************************************)
(* C19: in every reachable state every slot with index below the resume    *)
(* cursor is occupied, so a successful Acquire returns the lowest-index    *)
(* free slot of the whole store, and the slot a Release freed is the one   *)
(* the next Acquire takes whenever no lower slot is free.                  *)
(***************************************************************************)
BelowCursorUsed == \A i \in Slots : i < NextIndex => ActiveIndices[i] = 1

C19_LowestFreeSlot ==
    /\ []BelowCursorUsed
    /\ [][(last'.op = "Acquire" /\ last'.r = 1 /\ Acquire)
             => (/\ ActiveIndices[SlotIndexOf(last'.h)] = 0
                 /\ \A j \in Slots : j < SlotIndexOf(last'.h) => ActiveIndices[j] = 1
                 /\ (/\ last.op = "Release" /\ last.r = 1
                     /\ \A j \in Slots : j < SlotIndexOf(last.h) => ActiveIndices[j] = 1)
                       => SlotIndexOf(last'.h) = SlotIndexOf(last.h))]_vars

\* a slot was released while a higher one stayed in use, and the Acquire just
\* made took the released slot again, leaving the cursor right above it
C19_Witness ==
    /\ Acquired
    /\ BelowCursorUsed
    /\ \E e \in stale, f \in held, g \in held :
          /\ f.h = last.h /\ f.slot = e.slot /\ f.at = e.rel + 1
          /\ g.slot > f.slot
          /\ NextIndex = f.slot + 1

(***************************************************************************)
(* C20: whenever an iterator's Next returns a slot, the iterator's current *)
(* handle has the current index as its slot index and that slot's stored   *)
(* generation as its generation, so the checked lookup of the current      *)
(* handle succeeds and the unchecked dereference through it (operator->)   *)
(* addresses exactly the slot Next returned.                               *)
(***************************************************************************)
C20_CurrentHandleValid ==
    \A k \in DOMAIN iters :
        (iters[k] # NoIter /\ iters[k].ret >= 0)
           => /\ iters[k].ret = iters[k].CurrentIndex
              /\ SlotIndexOf(iters[k].CurrentDatumIndex) = iters[k].CurrentIndex
              /\ GenerationOf(iters[k].CurrentDatumIndex) = Data[iters[k].CurrentIndex]
              /\ iters[k].CurrentDatumIndex # AllOnes
              /\ Get(iters[k].CurrentDatumIndex) = iters[k].ret
              /\ IterDeref(iters[k]) = iters[k].ret

\* an iterator stands on its second slot, one that was taken again after a
\* release: index and generation differ
C20_Witness ==
    \E k \in DOMAIN iters :
        /\ iters[k] # NoIter
        /\ Len(iters[k].yielded) = 2
        /\ iters[k].ret = iters[k].yielded[2]
        /\ GenerationOf(iters[k].CurrentDatumIndex) > iters[k].ret + 1
        /\ stale # {}

====
